---------------------------- MODULE Spec2Model ----------------------------
(***************************************************************************)
(* A model of the log-to-record pipeline of gentoo_update:                 *)
(*   - Parser.split_log_to_sections          (src/gentoo_update/parser.py) *)
(*   - PackageParser._parse_package_string,  _determine_update_status,     *)
(*     _parse_package_ebuild / _blocks / _uninstall, parse_update_details  *)
(*                                   (src/gentoo_update/parser_package.py) *)
(*                                                                         *)
(* A Python str is a sequence of one-character strings, so that slicing,   *)
(* split, strip, replace and the substring test are computed character by  *)
(* character as Python computes them.  None is the empty sequence <<>> in  *)
(* an optional field and a present value v is <<v>>.  A dict is the        *)
(* sequence of its items in insertion order.                               *)
(***************************************************************************)
EXTENDS Integers, Sequences, FiniteSets

VARIABLES
    \* Parser.split_log_to_sections
    log_data, sp_i, section_name, log_by_sections, sp_pc,
    \* PackageParser._parse_package_string
    package_string, tk_i, temp, quotes_count, brackets_count,
    split_package_string, tk_pc,
    \* PackageParser._determine_update_status
    update_status, status, st_pc,
    \* PackageParser.parse_update_details
    section_content, package_strings, pd_i, packages, pd_pc

splitVars == <<log_data, sp_i, section_name, log_by_sections, sp_pc>>
tokVars   == <<package_string, tk_i, temp, quotes_count, brackets_count,
               split_package_string, tk_pc>>
statVars  == <<update_status, status, st_pc>>
parseVars == <<section_content, package_strings, pd_i, packages, pd_pc>>
vars      == <<splitVars, tokVars, statVars, parseVars>>

-----------------------------------------------------------------------------
(* Bounds of the model.                                                    *)

\* longest log handed to split_log_to_sections
MaxLogLen == 3
\* longest string handed to _parse_package_string on its own
MaxTokLen == 5
\* longest status string handed to _determine_update_status on its own
MaxStatusLen == 3
\* longest section handed to parse_update_details
MaxLines == 2
\* most hyphen-delimited parts of a generated name-version
MaxParts == 3

\* all sequences over S of length at most n
SeqsUpTo(S, n) == UNION {[1..k -> S] : k \in 0..n}

-----------------------------------------------------------------------------
(* Python's str operations, on sequences of characters.                    *)

\* the characters str.strip() removes (those that occur in the inputs)
Whitespace == {" ", "\t", "\n"}

\* the characters str.isnumeric() accepts (those that occur in the inputs)
Digits == {"0", "1", "2", "3", "4", "5", "6", "7", "8", "9"}

RECURSIVE LStrip(_)
LStrip(s) ==
    IF s # <<>> /\ Head(s) \in Whitespace THEN LStrip(Tail(s)) ELSE s

RECURSIVE RStrip(_)
RStrip(s) ==
    IF s # <<>> /\ s[Len(s)] \in Whitespace
    THEN RStrip(SubSeq(s, 1, Len(s) - 1))
    ELSE s

\* s.strip()
Strip(s) == RStrip(LStrip(s))

\* the positions at which sub occurs in s
Occurrences(s, sub) ==
    {i \in 1..(Len(s) - Len(sub) + 1) : SubSeq(s, i, i + Len(sub) - 1) = sub}

\* sub in s
Contains(s, sub) == Occurrences(s, sub) # {}

\* s.find(sub) + 1: the first position of sub in s, 0 when there is none
Find(s, sub) ==
    IF Occurrences(s, sub) = {} THEN 0
    ELSE CHOOSE i \in Occurrences(s, sub) :
             \A j \in Occurrences(s, sub) : i <= j

\* s.split(sep), sep not empty
RECURSIVE Split(_, _)
Split(s, sep) ==
    LET i == Find(s, sep)
    IN  IF i = 0 THEN <<s>>
        ELSE <<SubSeq(s, 1, i - 1)>>
                 \o Split(SubSeq(s, i + Len(sep), Len(s)), sep)

RECURSIVE Interleave(_, _)
Interleave(s, new) ==
    IF s = <<>> THEN new ELSE new \o <<Head(s)>> \o Interleave(Tail(s), new)

\* s.replace(old, new): every non-overlapping occurrence, left to right
RECURSIVE Replace(_, _, _)
Replace(s, old, new) ==
    IF old = <<>> THEN Interleave(s, new)
    ELSE LET i == Find(s, old)
         IN  IF i = 0 THEN s
             ELSE SubSeq(s, 1, i - 1) \o new
                      \o Replace(SubSeq(s, i + Len(old), Len(s)), old, new)

\* part.isnumeric()
IsNumeric(part) == part # <<>> /\ \A i \in 1..Len(part) : part[i] \in Digits

\* s[1:]
DropFirst(s) == SubSeq(s, 2, Len(s))

\* s[:-1]
DropLast(s) == SubSeq(s, 1, Len(s) - 1)

\* sep.join(parts)
RECURSIVE Join(_, _)
Join(parts, sep) ==
    IF parts = <<>> THEN <<>>
    ELSE IF Len(parts) = 1 THEN parts[1]
    ELSE parts[1] \o sep \o Join(Tail(parts), sep)

-----------------------------------------------------------------------------
(* PackageParser._parse_package_string: the quote- and bracket-aware       *)
(* tokenizer.                                                              *)

\* the condition of line 44, with a disjunction where the code has "and"
IsSeparatorEitherClosed(char, quotes, brackets) ==
    char = " " /\ (quotes % 2 = 0 \/ brackets = 0)

\* line 44: the space that ends a token
IsSeparator(char, quotes, brackets) ==
    char = " " /\ quotes % 2 = 0 /\ brackets = 0

\* lines 37-38
QuotesAfter(char, quotes) == IF char = "\"" THEN quotes + 1 ELSE quotes

\* lines 39-42
BracketsAfter(char, brackets) ==
    IF char = "\"" THEN brackets
    ELSE IF char = "[" THEN brackets + 1
    ELSE IF char = "]" THEN brackets - 1
    ELSE brackets

\* one iteration of the loop of lines 35-46
TokStep(st, char) ==
    LET t == Append(st.temp, char)
        q == QuotesAfter(char, st.quotes_count)
        b == BracketsAfter(char, st.brackets_count)
    IN  IF IsSeparator(char, q, b)
        THEN [split_package_string |-> Append(st.split_package_string, Strip(t)),
              temp |-> <<>>, quotes_count |-> q, brackets_count |-> b]
        ELSE [split_package_string |-> st.split_package_string,
              temp |-> t, quotes_count |-> q, brackets_count |-> b]

\* lines 48-51 with the last token never emitted
TokFinishNoFlush(st) == st.split_package_string

\* lines 48-51: the rest of the buffer is the last token
TokFinish(st) ==
    IF st.temp # <<>>
    THEN Append(st.split_package_string, Strip(st.temp))
    ELSE st.split_package_string

\* the characters of the strings tokenized on their own
TokAlphabet == {"a", " ", "\t", "\"", "[", "]"}

TokIdle ==
    /\ package_string = <<>> /\ tk_i = 0 /\ temp = <<>>
    /\ quotes_count = 0 /\ brackets_count = 0
    /\ split_package_string = <<>> /\ tk_pc = "idle"

\* _parse_package_string is entered with a string (lines 30-33)
TokEnter ==
    /\ package_string \in SeqsUpTo(TokAlphabet, MaxTokLen)
    /\ tk_i = 0 /\ temp = <<>> /\ quotes_count = 0 /\ brackets_count = 0
    /\ split_package_string = <<>> /\ tk_pc = "scan"

\* the locals of _parse_package_string
TokLocals ==
    [split_package_string |-> split_package_string, temp |-> temp,
     quotes_count |-> quotes_count, brackets_count |-> brackets_count]

\* lines 35-46: the next character is scanned
ScanChar ==
    /\ tk_pc = "scan" /\ tk_i < Len(package_string)
    /\ LET st == TokStep(TokLocals, package_string[tk_i + 1])
       IN  /\ split_package_string' = st.split_package_string
           /\ temp' = st.temp
           /\ quotes_count' = st.quotes_count
           /\ brackets_count' = st.brackets_count
    /\ tk_i' = tk_i + 1
    /\ UNCHANGED <<package_string, tk_pc>>
    /\ UNCHANGED <<splitVars, statVars, parseVars>>

\* lines 48-51: the loop is over, the buffer is flushed and the list returned
ScanReturn ==
    /\ tk_pc = "scan" /\ tk_i = Len(package_string)
    /\ split_package_string' = TokFinish(TokLocals)
    /\ tk_pc' = "done"
    /\ UNCHANGED <<package_string, tk_i, temp, quotes_count, brackets_count>>
    /\ UNCHANGED <<splitVars, statVars, parseVars>>

TokNext == ScanChar \/ ScanReturn

-----------------------------------------------------------------------------
(* Parser.split_log_to_sections.                                           *)

\* " ::: ", the marker between the logger's preamble and the payload
Marker == <<" ", ":", ":", ":", " ">>

beginning == <<"b", "e", "g", "i", "n", "n", "i", "n", "g">>
final == <<"f", "i", "n", "a", "l">>

\* re.search(r"\{\{(.+?)\}\}", s): "{{", one character or more that is not
\* a newline, "}}"
SearchSectionPattern(s) ==
    \E i \in 1..(Len(s) - 1), j \in 1..(Len(s) - 1) :
        /\ j >= i + 3
        /\ SubSeq(s, i, i + 1) = <<"{", "{">>
        /\ SubSeq(s, j, j + 1) = <<"}", "}">>
        /\ \A k \in (i + 2)..(j - 1) : s[k] # "\n"

\* the keys of a dict, in insertion order
RECURSIVE DictKeys(_)
DictKeys(d) == IF d = <<>> THEN <<>> ELSE <<Head(d).key>> \o DictKeys(Tail(d))

DictHas(d, k) == \E n \in 1..Len(d) : d[n].key = k

\* d[k]
DictGet(d, k) == d[CHOOSE n \in 1..Len(d) : d[n].key = k].val

\* d[k] = v: a key already there keeps its place and takes the new value
DictSet(d, k, v) ==
    IF DictHas(d, k)
    THEN [n \in 1..Len(d) |-> IF d[n].key = k THEN [key |-> k, val |-> v] ELSE d[n]]
    ELSE Append(d, [key |-> k, val |-> v])

\* line 44: line.split(" ::: ")[1].strip()
MarkedPayload(line) == Strip(Split(line, Marker)[2])

\* the lines of the logs: the logger's preamble is "t", a payload is a content
\* line, a section header or a header left unclosed, and a line without the
\* marker is raw output
LogLines ==
    { <<"t">> \o Marker \o <<"a", "\n">>,
      <<"t">> \o Marker \o <<"b", " ", "c", " ", "\n">>,
      <<"t">> \o Marker \o <<"{", "{", " ", "A", " ", "}", "}", "\n">>,
      <<"t">> \o Marker \o <<"{", "{", " ", "B", " ", "}", "}", "\n">>,
      <<"t">> \o Marker \o <<"{", "{", " ", "A", " ", "}", "\n">>,
      <<"t">> \o Marker \o <<"a">> \o Marker \o <<"b", "\n">>,
      <<"x", "\n">>,
      <<"y", " ", ":", ":", ":", "\n">> }

SplitIdle ==
    /\ log_data = <<>> /\ sp_i = 0 /\ section_name = <<>>
    /\ log_by_sections = <<>> /\ sp_pc = "idle"

\* split_log_to_sections is entered with the lines of a log (lines 38-40)
SplitEnter ==
    /\ log_data \in SeqsUpTo(LogLines, MaxLogLen)
    /\ sp_i = 0
    /\ section_name = beginning
    /\ log_by_sections = <<[key |-> beginning, val |-> <<>>]>>
    /\ sp_pc = "scan"

\* lines 42-52: the next line of the log is routed
SplitLine ==
    /\ sp_pc = "scan" /\ sp_i < Len(log_data)
    /\ LET line == log_data[sp_i + 1]
       IN  IF Contains(line, Marker)
           THEN LET payload == MarkedPayload(line)
                IN  IF SearchSectionPattern(payload)
                    THEN /\ section_name' = payload
                         /\ log_by_sections' =
                                DictSet(log_by_sections, payload, <<>>)
                    ELSE /\ section_name' = section_name
                         /\ log_by_sections' =
                                DictSet(log_by_sections, section_name,
                                        Append(DictGet(log_by_sections, section_name),
                                               payload))
           ELSE /\ section_name' = section_name
                /\ log_by_sections' = DictSet(log_by_sections, final, line)
    /\ sp_i' = sp_i + 1
    /\ UNCHANGED <<log_data, sp_pc>>
    /\ UNCHANGED <<tokVars, statVars, parseVars>>

\* line 54: the dict is returned
SplitReturn ==
    /\ sp_pc = "scan" /\ sp_i = Len(log_data)
    /\ sp_pc' = "done"
    /\ UNCHANGED <<log_data, sp_i, section_name, log_by_sections>>
    /\ UNCHANGED <<tokVars, statVars, parseVars>>

SplitNext == SplitLine \/ SplitReturn

-----------------------------------------------------------------------------
(* PackageParser._determine_update_status.                                 *)

\* NewPackage
NewPackage ==
    <<"N", "e", "w", "P", "a", "c", "k", "a", "g", "e">>

\* ReEmerge
ReEmerge ==
    <<"R", "e", "E", "m", "e", "r", "g", "e">>

\* Update
Update ==
    <<"U", "p", "d", "a", "t", "e">>

\* Undefined
Undefined ==
    <<"U", "n", "d", "e", "f", "i", "n", "e", "d">>

\* lines 64-75 with the cases for "R" and "N" in the other order
DetermineReEmergeFirst(x) ==
    IF Contains(x, <<"R">>) THEN ReEmerge
    ELSE IF Contains(x, <<"N">>) THEN NewPackage
    ELSE IF Contains(x, <<"U">>) THEN Update
    ELSE Undefined

\* lines 64-75: the first case whose guard holds gives the status
_determine_update_status(x) ==
    IF Contains(x, <<"N">>) THEN NewPackage
    ELSE IF Contains(x, <<"R">>) THEN ReEmerge
    ELSE IF Contains(x, <<"U">>) THEN Update
    ELSE Undefined

\* the characters of the status strings classified on their own
StatusAlphabet == {"N", "R", "U", "n", "r", " "}

StatIdle == update_status = <<>> /\ status = <<>> /\ st_pc = "idle"

\* _determine_update_status is entered with a string (line 64)
StatEnter ==
    /\ update_status \in SeqsUpTo(StatusAlphabet, MaxStatusLen)
    /\ status = <<>>
    /\ st_pc = "call"

\* lines 64-75: the status is determined and returned
DetermineStatus ==
    /\ st_pc = "call"
    /\ status' = status \o _determine_update_status(update_status)
    /\ st_pc' = "done"
    /\ UNCHANGED update_status
    /\ UNCHANGED <<splitVars, tokVars, parseVars>>

StatNext == DetermineStatus

-----------------------------------------------------------------------------
(* The record builders of PackageParser.                                   *)

\* None
None == <<>>

\* a value that is present in a field that may hold None
Some(v) == <<v>>

\* report_objects.PackageInfo(package_type, package_name, new_version,
\* old_version, update_status, repo): a record of the six arguments, with
\* no attributes yet
PackageInfo(package_type, package_name, new_version, old_version, upd, repo) ==
    [package_type |-> package_type, package_name |-> package_name,
     new_version |-> new_version, old_version |-> old_version,
     update_status |-> upd, repo |-> repo, attributes |-> <<>>]

\* PackageInfo.add_attributes({key: value}): the item is stored under key
add_attributes(info, key, value) ==
    [info EXCEPT !.attributes = DictSet(info.attributes, key, value)]

\* a builder that indexes past the end of a list leaves by IndexError
IndexError == [raised |-> TRUE, package |-> None]

\* a builder that returns a PackageInfo
Returned(info) == [raised |-> FALSE, package |-> Some(info)]

\* lines 98-103: the part belongs to the version
IsVersionPart(part) ==
    \/ IsNumeric(part)
    \/ Contains(part, <<".">>) \/ Contains(part, <<":">>)
    \/ Len(part) = 2 /\ part[1] = "r" /\ IsNumeric(<<part[2]>>)

\* lines 96-105: package_name after the loop over the parts
RECURSIVE NameOfParts(_)
NameOfParts(parts) ==
    IF parts = <<>> THEN <<>>
    ELSE (IF IsVersionPart(Head(parts)) THEN <<>> ELSE Head(parts) \o <<"-">>)
             \o NameOfParts(Tail(parts))

\* lines 120-123: each token that holds "=" and a double quote after it
\* gives an attribute
RECURSIVE EbuildAttributes(_, _)
EbuildAttributes(info, tokens) ==
    IF tokens = <<>> THEN info
    ELSE LET var == Head(tokens)
             splitvar == Split(var, <<"=">>)
         IN  IF Contains(var, <<"=", "\"">>)
             THEN EbuildAttributes(
                      add_attributes(info, splitvar[1],
                                     Split(DropLast(DropFirst(splitvar[2])), <<" ">>)),
                      Tail(tokens))
             ELSE EbuildAttributes(info, Tail(tokens))

\* _parse_package_ebuild(split_package_string), lines 90-125; the list of
\* the code is indexed from 0 and the sequence here from 1
_parse_package_ebuild(tokens) ==
    IF Len(tokens) < 2 THEN IndexError
    ELSE LET package_base_info == tokens[2]
             base == Split(package_base_info, <<":", ":">>)
         IN  IF Len(base) < 2 THEN IndexError
             ELSE IF Len(tokens) < 3 THEN IndexError
             ELSE LET repo == base[2]
                      name_newversion == base[1]
                      package_name == NameOfParts(Split(name_newversion, <<"-">>))
                      new_version == Replace(name_newversion, package_name, <<>>)
                      old_version ==
                          DropFirst(Split(tokens[3], <<":", ":">>)[1])
                  IN  Returned(EbuildAttributes(
                          PackageInfo("ebuild", DropLast(package_name),
                                      Some(new_version), Some(old_version),
                                      _determine_update_status(tokens[1]),
                                      Some(repo)),
                          tokens))

\* blocked_package
blocked_package ==
    <<"b", "l", "o", "c", "k", "e", "d", "_", "p", "a", "c", "k", "a", "g",
      "e">>

\* _parse_package_blocks(split_package_string), lines 141-158
_parse_package_blocks(tokens) ==
    IF Len(tokens) < 2 THEN IndexError
    ELSE Returned(add_attributes(
             PackageInfo("blocks", DropFirst(tokens[2]), None, None,
                         tokens[1], None),
             blocked_package, DropLast(tokens[Len(tokens)])))

\* uninstalled_package
uninstalled_package ==
    <<"u", "n", "i", "n", "s", "t", "a", "l", "l", "e", "d", "_", "p", "a",
      "c", "k", "a", "g", "e">>

\* _parse_package_uninstall(split_package_string), lines 175-193
_parse_package_uninstall(tokens) ==
    IF Len(tokens) < 2 THEN IndexError
    ELSE LET split_package_info == Split(tokens[2], <<":", ":">>)
         IN  IF Len(split_package_info) < 2 THEN IndexError
             ELSE Returned(add_attributes(
                      PackageInfo("uninstall", split_package_info[1], None, None,
                                  tokens[1], Some(split_package_info[2])),
                      uninstalled_package, split_package_info[1]))

-----------------------------------------------------------------------------
(* PackageParser.parse_update_details.                                     *)

\* re.search(r"\[(.+?)\]", line): "[", one character or more that is not a
\* newline, "]"
SearchEbuildInfoPattern(line) ==
    \E i \in 1..Len(line), j \in 1..Len(line) :
        /\ j >= i + 2
        /\ line[i] = "[" /\ line[j] = "]"
        /\ \A k \in (i + 1)..(j - 1) : line[k] # "\n"

\* [ ok ]
LineOk ==
    <<"[", " ", "o", "k", " ", "]">>

\* line 212: the line is kept as a package string
KeepsLine(line) == SearchEbuildInfoPattern(line) /\ line # LineOk

\* ebuild
ebuild ==
    <<"e", "b", "u", "i", "l", "d">>

\* blocks
blocks ==
    <<"b", "l", "o", "c", "k", "s">>

\* uninstall
uninstall ==
    <<"u", "n", "i", "n", "s", "t", "a", "l", "l">>

\* lines 220-225 with the test for "blocks" before the test for "ebuild"
DispatchBlocksFirst(tokens) ==
    IF Contains(tokens[1], blocks) THEN _parse_package_blocks(tokens)
    ELSE IF Contains(tokens[1], ebuild) THEN _parse_package_ebuild(tokens)
    ELSE IF Contains(tokens[1], uninstall) THEN _parse_package_uninstall(tokens)
    ELSE [raised |-> FALSE, package |-> None]

\* lines 217-225: the builder is chosen by the first token
Dispatch(tokens) ==
    IF Contains(tokens[1], ebuild) THEN _parse_package_ebuild(tokens)
    ELSE IF Contains(tokens[1], blocks) THEN _parse_package_blocks(tokens)
    ELSE IF Contains(tokens[1], uninstall) THEN _parse_package_uninstall(tokens)
    ELSE [raised |-> FALSE, package |-> None]

\* [ebuild U ] a/b-1.0::g [0.9::g] 72 KiB
LineUpdate ==
    <<"[", "e", "b", "u", "i", "l", "d", " ", "U", " ", "]", " ", "a", "/",
      "b", "-", "1", ".", "0", ":", ":", "g", " ", "[", "0", ".", "9", ":",
      ":", "g", "]", " ", "7", "2", " ", "K", "i", "B">>

\* [ebuild N ] a/b-1.0::g U="x y"
LineNew ==
    <<"[", "e", "b", "u", "i", "l", "d", " ", "N", " ", "]", " ", "a", "/",
      "b", "-", "1", ".", "0", ":", ":", "g", " ", "U", "=", "\"", "x", " ",
      "y", "\"">>

\* [ebuild R ] 1.0::g [1.0::g]
LineNoName ==
    <<"[", "e", "b", "u", "i", "l", "d", " ", "R", " ", "]", " ", "1", ".",
      "0", ":", ":", "g", " ", "[", "1", ".", "0", ":", ":", "g", "]">>

\* [ebuild U ] a/b-1.0::g
LineTruncated ==
    <<"[", "e", "b", "u", "i", "l", "d", " ", "U", " ", "]", " ", "a", "/",
      "b", "-", "1", ".", "0", ":", ":", "g">>

\* [blocks b ] <a/b-1 ("<a/b-1" is blocking c/d-2)
LineBlocks ==
    <<"[", "b", "l", "o", "c", "k", "s", " ", "b", " ", "]", " ", "<", "a",
      "/", "b", "-", "1", " ", "(", "\"", "<", "a", "/", "b", "-", "1",
      "\"", " ", "i", "s", " ", "b", "l", "o", "c", "k", "i", "n", "g", " ",
      "c", "/", "d", "-", "2", ")">>

\* [uninstall ] a/b-1.0::g
LineUninstall ==
    <<"[", "u", "n", "i", "n", "s", "t", "a", "l", "l", " ", "]", " ", "a",
      "/", "b", "-", "1", ".", "0", ":", ":", "g">>

\* >>> a/b-1.0
LineEmerging ==
    <<">", ">", ">", " ", "a", "/", "b", "-", "1", ".", "0">>

\* [binary U ] a/b-1.0::g [0.9::g]
LineBinary ==
    <<"[", "b", "i", "n", "a", "r", "y", " ", "U", " ", "]", " ", "a", "/",
      "b", "-", "1", ".", "0", ":", ":", "g", " ", "[", "0", ".", "9", ":",
      ":", "g", "]">>

\* [ebuild blocks ] a/b-1.0::g [0.9::g]
LineBoth ==
    <<"[", "e", "b", "u", "i", "l", "d", " ", "b", "l", "o", "c", "k", "s",
      " ", "]", " ", "a", "/", "b", "-", "1", ".", "0", ":", ":", "g", " ",
      "[", "0", ".", "9", ":", ":", "g", "]">>

\* the lines of the sections handed to parse_update_details
SectionLines ==
    {LineUpdate, LineNew, LineNoName, LineTruncated, LineBlocks, LineUninstall,
     LineOk, LineEmerging, LineBinary, LineBoth}

ParseIdle ==
    /\ section_content = <<>> /\ package_strings = <<>> /\ pd_i = 0
    /\ packages = <<>> /\ pd_pc = "idle"

\* parse_update_details is entered with the lines of a section
ParseEnter ==
    /\ section_content \in SeqsUpTo(SectionLines, MaxLines)
    /\ package_strings = <<>> /\ pd_i = 0 /\ packages = <<>>
    /\ pd_pc = "filter"

\* lines 208-214: the lines that may describe a package are kept
FilterLines ==
    /\ pd_pc = "filter"
    /\ package_strings' = SelectSeq(section_content, KeepsLine)
    /\ pd_pc' = "loop"
    /\ UNCHANGED <<section_content, pd_i, packages>>
    /\ UNCHANGED <<splitVars, tokVars, statVars>>

\* lines 215-216: the next package string is handed to _parse_package_string
\* (lines 30-33)
NextLine ==
    /\ pd_pc = "loop" /\ pd_i < Len(package_strings)
    /\ package_string' = package_strings[pd_i + 1]
    /\ tk_i' = 0 /\ temp' = <<>> /\ quotes_count' = 0 /\ brackets_count' = 0
    /\ split_package_string' = <<>> /\ tk_pc' = "scan"
    /\ pd_pc' = "tokenize"
    /\ UNCHANGED <<section_content, package_strings, pd_i, packages>>
    /\ UNCHANGED <<splitVars, statVars>>

\* lines 217-228: the tokens are handed to their builder and its record is
\* kept; the builder's IndexError leaves parse_update_details
BuildPackage ==
    /\ pd_pc = "tokenize" /\ tk_pc = "done"
    /\ LET r == Dispatch(split_package_string)
       IN  IF r.raised
           THEN /\ pd_pc' = "raised"
                /\ UNCHANGED <<pd_i, packages>>
           ELSE /\ pd_pc' = "loop"
                /\ pd_i' = pd_i + 1
                /\ packages' = packages \o r.package
    /\ tk_pc' = "idle"
    /\ UNCHANGED <<section_content, package_strings>>
    /\ UNCHANGED <<package_string, tk_i, temp, quotes_count, brackets_count,
                   split_package_string>>
    /\ UNCHANGED <<splitVars, statVars>>

\* line 230: the records are returned
ParseReturn ==
    /\ pd_pc = "loop" /\ pd_i = Len(package_strings)
    /\ pd_pc' = "done"
    /\ UNCHANGED <<section_content, package_strings, pd_i, packages>>
    /\ UNCHANGED <<splitVars, tokVars, statVars>>

ParseNext ==
    FilterLines \/ NextLine \/ ScanChar \/ ScanReturn \/ BuildPackage \/ ParseReturn

-----------------------------------------------------------------------------
(* The specifications: one per operation, each started on its inputs.      *)

InitSplit == SplitEnter /\ TokIdle /\ StatIdle /\ ParseIdle

SpecSplit == InitSplit /\ [][SplitNext]_vars

InitTok == TokEnter /\ SplitIdle /\ StatIdle /\ ParseIdle

SpecTok == InitTok /\ [][TokNext]_vars

InitStatus == StatEnter /\ SplitIdle /\ TokIdle /\ ParseIdle

SpecStatus == InitStatus /\ [][StatNext]_vars

InitParse == ParseEnter /\ SplitIdle /\ TokIdle /\ StatIdle

SpecParse == InitParse /\ [][ParseNext]_vars

\* the hyphen-delimited parts of the generated name-versions: a name part,
\* a number, a dotted version that ends in the name part, a revision
NameVersionParts == {<<"a">>, <<"1">>, <<"1", ".", "a">>, <<"r", "1">>}

\* the generated name-versions: one part to MaxParts parts joined by hyphens
NameVersions ==
    {Join(parts, <<"-">>) : parts \in SeqsUpTo(NameVersionParts, MaxParts) \ {<<>>}}

\* [ebuild U ]
StatusU ==
    <<"[", "e", "b", "u", "i", "l", "d", " ", "U", " ", "]">>

\* [ebuild N ]
StatusN ==
    <<"[", "e", "b", "u", "i", "l", "d", " ", "N", " ", "]">>

\* ::g
RepoSuffix ==
    <<":", ":", "g">>

\* [0.9::g]
OldVersionToken ==
    <<"[", "0", ".", "9", ":", ":", "g", "]">>

\* 72
SizeToken ==
    <<"7", "2">>

\* U="x y"
UseToken ==
    <<"U", "=", "\"", "x", " ", "y", "\"">>

\* V="x y"
FlagToken ==
    <<"V", "=", "\"", "x", " ", "y", "\"">>

\* V="x=y z"
FlagEqToken ==
    <<"V", "=", "\"", "x", "=", "y", " ", "z", "\"">>

\* V=""
FlagEmptyToken ==
    <<"V", "=", "\"", "\"">>

\* the tokens after the name-version of a generated line: an update shows
\* the old version, a new package a size or an assignment
EbuildShapes ==
    {<<StatusU, OldVersionToken>>, <<StatusN, SizeToken>>, <<StatusN, UseToken>>}

\* the generated ebuild lines: a status, a name-version with its repo, the
\* third token that goes with the status, and then an assignment or nothing
EbuildLines ==
    {Join(<<shape[1], nv \o RepoSuffix, shape[2]>> \o rest, <<" ">>) :
        shape \in EbuildShapes,
        nv \in NameVersions,
        rest \in {<<>>, <<FlagToken>>, <<FlagEqToken>>, <<FlagEmptyToken>>}}

\* parse_update_details is entered with a section of one ebuild line
EbuildEnter ==
    /\ section_content \in {<<line>> : line \in EbuildLines}
    /\ package_strings = <<>> /\ pd_i = 0 /\ packages = <<>>
    /\ pd_pc = "filter"

InitEbuild == EbuildEnter /\ SplitIdle /\ TokIdle /\ StatIdle

SpecEbuild == InitEbuild /\ [][ParseNext]_vars

-----------------------------------------------------------------------------
(* The properties.  What a property expects is stated from the text of the *)
(* input, by counting, and not by running the operations above.            *)

\* the number of double quotes in s[1..i]
QuotesUpTo(s, i) == Cardinality({j \in 1..i : s[j] = "\""})

\* the number of "[" less the number of "]" in s[1..i]
DepthUpTo(s, i) ==
    Cardinality({j \in 1..i : s[j] = "["}) - Cardinality({j \in 1..i : s[j] = "]"})

\* position i of s is outside every quoted and every bracketed span
IsOutside(s, i) == QuotesUpTo(s, i) % 2 = 0 /\ DepthUpTo(s, i) = 0

\* the k-th smallest member of a set of numbers
Nth(S, k) == CHOOSE i \in S : Cardinality({j \in S : j <= i}) = k

\* the tokens of a line: the pieces that end at a space outside every span,
\* and the piece after the last such space when there is one
TokensOf(s) ==
    LET seps == {i \in 1..Len(s) : s[i] = " " /\ IsOutside(s, i)}
        n == Cardinality(seps)
        from(k) == IF k = 1 THEN 1 ELSE Nth(seps, k - 1) + 1
        last == IF n = 0 THEN 0 ELSE Nth(seps, n)
    IN  [k \in 1..n |-> Strip(SubSeq(s, from(k), Nth(seps, k)))]
            \o (IF last < Len(s) THEN <<Strip(SubSeq(s, last + 1, Len(s)))>> ELSE <<>>)

\* s has as many "]" as "[" and an even number of double quotes
Balanced(s) == IsOutside(s, Len(s))

\* position i of s holds whitespace outside every span
IsOutsideSpace(s, i) == s[i] \in Whitespace /\ IsOutside(s, i)

\* position i of s holds whitespace outside every span, with a character that
\* is no such whitespace somewhere before it and somewhere after it
IsInteriorSpace(s, i) ==
    /\ IsOutsideSpace(s, i)
    /\ \E j \in 1..(i - 1) : ~IsOutsideSpace(s, j)
    /\ \E j \in (i + 1)..Len(s) : ~IsOutsideSpace(s, j)

\* the positions of s that collapsing the interior keeps: everything but the
\* interior whitespace outside the spans, and of each run of that whitespace
\* the first position
InteriorKept(s) ==
    {i \in 1..Len(s) : ~IsInteriorSpace(s, i) \/ ~IsOutsideSpace(s, i - 1)}

\* s with each interior run of whitespace outside the spans collapsed to one
\* space; whitespace at either end of s stays as it is
CollapseInterior(s) ==
    [k \in 1..Cardinality(InteriorKept(s)) |->
        LET i == Nth(InteriorKept(s), k)
        IN  IF IsInteriorSpace(s, i) THEN " " ELSE s[i]]

\* the spaces of s outside every span: each ends a token
Separators(s) == {i \in 1..Len(s) : s[i] = " " /\ IsOutside(s, i)}

\* position i of s is trimmed off its token: only whitespace lies between the
\* start of the token and i, or between i and the space that ends the token
\* (the end of s for the last token)
IsTrimmed(s, i) ==
    LET before == {p \in Separators(s) : p < i}
        after == {p \in Separators(s) : p >= i}
        from == IF before = {} THEN 1 ELSE Nth(before, Cardinality(before)) + 1
        to == IF after = {} THEN Len(s) ELSE Nth(after, 1)
    IN  \/ \A k \in from..i : s[k] \in Whitespace
        \/ \A k \in i..to : s[k] \in Whitespace

\* the positions of s that come back when its tokens are joined: what is not
\* trimmed off a token, and every space that ends a token but one that is
\* the last character of s
RejoinedPositions(s) ==
    {i \in 1..Len(s) : ~IsTrimmed(s, i) \/ (i \in Separators(s) /\ i < Len(s))}

\* s without the whitespace trimmed off its tokens
Rejoined(s) ==
    [k \in 1..Cardinality(RejoinedPositions(s)) |-> s[Nth(RejoinedPositions(s), k)]]

\* some character of s is c
HasChar(s, c) == \E i \in 1..Len(s) : s[i] = c

\* the text of s before the first "::"
BeforeRepo(s) == SubSeq(s, 1, Find(s, <<":", ":">>) - 1)

(* ----------------------------- C1 ------------------------------------- *)

IsMarked(line) == Contains(line, Marker)

\* the whole payload of a marked line: the text after the first marker, trimmed
FullPayload(line) ==
    Strip(SubSeq(line, Find(line, Marker) + Len(Marker), Len(line)))

IsHeader(line) == IsMarked(line) /\ SearchSectionPattern(FullPayload(line))

IsContent(line) == IsMarked(line) /\ ~IsHeader(line)

\* the section a line of the log falls in: the last header before it
SectionOf(log, i) ==
    LET headers == {h \in 1..(i - 1) : IsHeader(log[h])}
    IN  IF headers = {} THEN beginning
        ELSE FullPayload(log[CHOOSE h \in headers : \A g \in headers : g <= h])

\* the payloads of the content lines of the log that fall in section name,
\* in the order of the log
ContentOf(log, name) ==
    LET at == {i \in 1..Len(log) : IsContent(log[i]) /\ SectionOf(log, i) = name}
    IN  [k \in 1..Cardinality(at) |-> FullPayload(log[Nth(at, k)])]

\* C1: when split_log_to_sections has returned, every section of the dict
\* holds exactly the full trimmed payloads of the marked non-header lines
\* that fall in it, each once and in log order, every such line falls in a
\* section of the dict, and the last unmarked line is held under "final".
C1_SectionsPartitionLog ==
    sp_pc = "done" =>
        /\ \A n \in 1..Len(log_by_sections) :
               log_by_sections[n].key # final =>
                   log_by_sections[n].val = ContentOf(log_data, log_by_sections[n].key)
        /\ \A i \in 1..Len(log_data) :
               IsContent(log_data[i]) =>
                   DictHas(log_by_sections, SectionOf(log_data, i))
        /\ \A i \in 1..Len(log_data) :
               (~IsMarked(log_data[i])
                    /\ \A j \in (i + 1)..Len(log_data) : IsMarked(log_data[j]))
                   => /\ DictHas(log_by_sections, final)
                      /\ DictGet(log_by_sections, final) = log_data[i]

(* ----------------------------- C2 ------------------------------------- *)

\* C2: parse_update_details never leaves by an exception, whatever the lines.
C2_NeverRaises == pd_pc # "raised"

(* ----------------------------- C3 ------------------------------------- *)

\* the variant the first token of a line selects, by the three tests in order
VariantOf(line) ==
    LET first == TokensOf(line)[1]
    IN  IF Contains(first, ebuild) THEN "ebuild"
        ELSE IF Contains(first, blocks) THEN "blocks"
        ELSE IF Contains(first, uninstall) THEN "uninstall"
        ELSE "unknown"

\* the line holds a "[...]" span and is not "[ ok ]"
Survives(line) ==
    /\ line # LineOk
    /\ \E i \in 1..Len(line), j \in 1..Len(line) :
           j > i + 1 /\ line[i] = "[" /\ line[j] = "]"

\* the line yields a record
Qualifies(line) == Survives(line) /\ VariantOf(line) # "unknown"

\* the line has the tokens its builder indexes, and a second token with "::"
\* where the builder splits on it
WellFormed(line) ==
    LET tokens == TokensOf(line)
    IN  CASE VariantOf(line) = "ebuild" ->
                 Len(tokens) >= 3 /\ Contains(tokens[2], <<":", ":">>)
          [] VariantOf(line) = "blocks" -> Len(tokens) >= 2
          [] VariantOf(line) = "uninstall" ->
                 Len(tokens) >= 2 /\ Contains(tokens[2], <<":", ":">>)
          [] OTHER -> TRUE

\* the record of a line that qualifies: the one its variant's builder makes
RecordOf(line) ==
    LET tokens == TokensOf(line)
    IN  CASE VariantOf(line) = "ebuild" -> _parse_package_ebuild(tokens).package[1]
          [] VariantOf(line) = "blocks" -> _parse_package_blocks(tokens).package[1]
          [] VariantOf(line) = "uninstall" ->
                 _parse_package_uninstall(tokens).package[1]

\* C3: when every surviving line of the section is well-formed,
\* parse_update_details returns, and what it returns is the records of the
\* lines that qualify, one per line, in the order of the lines, duplicates
\* kept.
C3_OneRecordPerQualifyingLine ==
    (/\ pd_pc \in {"done", "raised"}
     /\ \A n \in 1..Len(section_content) :
            Survives(section_content[n]) => WellFormed(section_content[n]))
        => LET lines == SelectSeq(section_content, Qualifies)
           IN  /\ pd_pc = "done"
               /\ Len(packages) = Len(lines)
               /\ \A k \in 1..Len(lines) :
                      /\ packages[k].package_type = VariantOf(lines[k])
                      /\ packages[k] = RecordOf(lines[k])

\* a section with the same well-formed line twice has been parsed into two
\* records
C3_Witness ==
    /\ pd_pc = "done"
    /\ section_content = <<LineUpdate, LineUpdate>>
    /\ Len(packages) = 2 /\ packages[1] = packages[2]

(* ----------------------------- C4 ------------------------------------- *)

\* C4, as stated: when _parse_package_string has returned the tokens of a
\* balanced line, the tokens joined by single spaces are the line up to the
\* collapsing of interior whitespace outside the quoted and bracketed spans:
\* the two are equal once each interior run of that whitespace is one space.
C4_JoinReproducesLine ==
    (tk_pc = "done" /\ Balanced(package_string))
        => CollapseInterior(Join(split_package_string, <<" ">>))
               = CollapseInterior(package_string)

\* C4, amended: when _parse_package_string has returned the tokens of a
\* balanced line, the tokens joined by single spaces are the line without the
\* whitespace trimmed off the ends of its tokens.  Every space outside the
\* spans comes back as a joining space, runs of them uncollapsed, except a
\* space that is the last character of the line; other whitespace next to
\* such a space or at either end of the line is dropped.  What is dropped is
\* whitespace outside the spans only, so every other character, and all
\* whitespace inside a span, is kept in its place.
C4_JoinReproducesTrimmedLine ==
    (tk_pc = "done" /\ Balanced(package_string))
        => /\ Join(split_package_string, <<" ">>) = Rejoined(package_string)
           /\ \A i \in 1..Len(package_string) :
                  i \notin RejoinedPositions(package_string)
                      => IsOutsideSpace(package_string, i)

\* a balanced line with a space inside brackets, and a tab and a space after
\* them that end the line, has been tokenized: the space inside is kept, the
\* two at the end are lost
C4_Witness ==
    /\ tk_pc = "done"
    /\ package_string = <<"[", " ", "]", "\t", " ">>
    /\ split_package_string = <<(<<"[", " ", "]">>)>>

(* ----------------------------- C5 ------------------------------------- *)

\* C5: when the scan is at a space, the space ends the current token (one
\* more token is emitted and the buffer is reset) exactly when the quotes
\* seen so far are even in number and the bracket depth so far is zero; any
\* other space is added to the buffer and no token is emitted.
C5_SpaceEndsTokenIffOutside ==
    [][(tk_pc = "scan" /\ tk_i < Len(package_string)
            /\ package_string[tk_i + 1] = " ")
        => IF /\ QuotesUpTo(package_string, tk_i + 1) % 2 = 0
              /\ DepthUpTo(package_string, tk_i + 1) = 0
           THEN /\ Len(split_package_string') = Len(split_package_string) + 1
                /\ temp' = <<>>
           ELSE /\ split_package_string' = split_package_string
                /\ temp' = Append(temp, " ")]_vars

\* a line has been scanned in which one space stayed inside a bracketed token
\* and one, outside the brackets, ended that token
C5_Witness ==
    /\ tk_pc = "done"
    /\ package_string = <<"[", " ", "]", " ", "\"">>
    /\ split_package_string = <<(<<"[", " ", "]">>), (<<"\"">>)>>

(* ----------------------------- C6 ------------------------------------- *)

\* C6: the status returned is NewPackage when the string holds "N", and
\* otherwise ReEmerge when it holds "R", and otherwise Update when it holds
\* "U", and otherwise Undefined; lower-case letters do not count.
C6_FirstMatchWins ==
    st_pc = "done" =>
        /\ HasChar(update_status, "N") => status = NewPackage
        /\ (~HasChar(update_status, "N") /\ HasChar(update_status, "R"))
               => status = ReEmerge
        /\ (~HasChar(update_status, "N") /\ ~HasChar(update_status, "R")
                /\ HasChar(update_status, "U")) => status = Update
        /\ (~HasChar(update_status, "N") /\ ~HasChar(update_status, "R")
                /\ ~HasChar(update_status, "U")) => status = Undefined

\* a string that holds all three letters, "N" last, has been classified
C6_Witness ==
    /\ st_pc = "done"
    /\ update_status = <<"U", "R", "N">>
    /\ status = NewPackage

(* ----------------------------- C7 ------------------------------------- *)

\* C7: every record returned has a name that is not empty and neither
\* begins nor ends with a hyphen.
C7_NameNonEmptyNoEdgeHyphen ==
    pd_pc = "done" =>
        \A k \in 1..Len(packages) :
            LET name == packages[k].package_name
            IN  name # <<>> /\ name[1] # "-" /\ name[Len(name)] # "-"

(* ----------------------------- C8 ------------------------------------- *)

\* the part belongs to the version: only digits, or a "." or a ":" in it, or
\* "r" and one digit
IsVersionPartOfClaim(part) ==
    \/ part # <<>> /\ \A i \in 1..Len(part) : part[i] \in Digits
    \/ HasChar(part, ".") \/ HasChar(part, ":")
    \/ Len(part) = 2 /\ part[1] = "r" /\ part[2] \in Digits

IsNamePartOfClaim(part) == ~IsVersionPartOfClaim(part)

\* the token is name-version::repo: before the "::", one name part or more
\* and then one version part or more, joined by hyphens
IsNameVersionRepo(token) ==
    /\ Contains(token, <<":", ":">>)
    /\ LET parts == Split(BeforeRepo(token), <<"-">>)
       IN  \E k \in 1..(Len(parts) - 1) :
               /\ \A i \in 1..k : IsNamePartOfClaim(parts[i])
               /\ \A i \in (k + 1)..Len(parts) : IsVersionPartOfClaim(parts[i])

\* parse_update_details has returned the record of one ebuild line whose
\* second token is name-version::repo
EbuildLineParsed ==
    /\ pd_pc = "done" /\ Len(packages) = 1
    /\ packages[1].package_type = "ebuild"
    /\ IsNameVersionRepo(split_package_string[2])

\* the token has the form "[old-version::old-repo]"
ShowsOldVersion(token) ==
    /\ Len(token) >= 2 /\ token[1] = "[" /\ token[Len(token)] = "]"
    /\ Contains(token, <<":", ":">>)

\* C8: the record of an ebuild line (one whose second token is
\* name-version::repo) has an old_version only when the third token of the
\* line shows one, and it is then the text between the leading
\* "[" and the "::"; otherwise old_version is absent.
C8_OldVersionOnlyWhenShown ==
    EbuildLineParsed
        => LET third == split_package_string[3]
           IN  IF ShowsOldVersion(third)
               THEN packages[1].old_version = Some(DropFirst(BeforeRepo(third)))
               ELSE packages[1].old_version = None

(* ----------------------------- C9 ------------------------------------- *)

\* C9: the name of the record of an ebuild line (one whose name-version is
\* name parts and then version parts) is the hyphen-join of the parts of
\* name-version that are no version parts, and new_version is what
\* is left of name-version after that name and its hyphen, so that name, a
\* hyphen and new_version give name-version back.
C9_NameAndVersionSplitNameVersion ==
    EbuildLineParsed
        => LET name_version == BeforeRepo(split_package_string[2])
               name == Join(SelectSeq(Split(name_version, <<"-">>), IsNamePartOfClaim),
                            <<"-">>)
           IN  /\ packages[1].package_name = name
               /\ Len(packages[1].new_version) = 1
               /\ name \o <<"-">> \o packages[1].new_version[1] = name_version

(* ----------------------------- C10 ------------------------------------ *)

\* C10: for every token of an ebuild line that holds "=" and a double quote
\* after it, the record has an
\* attribute whose key is the text left of the first "=" and whose value is
\* the text right of that "=" without its first and last character (the
\* quotes), split on single spaces.
C10_AttributePerAssignment ==
    EbuildLineParsed
        => \A n \in 1..Len(split_package_string) :
               LET var == split_package_string[n]
                   eq == Find(var, <<"=">>)
                   quoted == SubSeq(var, eq + 1, Len(var))
               IN  Contains(var, <<"=", "\"">>) =>
                       /\ DictHas(packages[1].attributes, SubSeq(var, 1, eq - 1))
                       /\ DictGet(packages[1].attributes, SubSeq(var, 1, eq - 1))
                              = Split(SubSeq(quoted, 2, Len(quoted) - 1), <<" ">>)

=============================================================================
